---- MODULE Spec2Model ----
(***************************************************************************)
(* Model of the molecular viewer `review` (src/src/main.rs).               *)
(*                                                                         *)
(* Text is modelled as sequences of bytes, each a short string, so that    *)
(* the tokenizer, the header test (byte length of the first line) and the  *)
(* number parser are computed rather than assumed.  An f32 is modelled bit *)
(* for bit: str::parse::<f32> and the f32 operations of the program round  *)
(* to the nearest value of IEEE-754 binary32, ties to even, with           *)
(* subnormal numbers, infinities and NaN.                                  *)
(***************************************************************************)
EXTENDS Integers, Sequences, FiniteSets, TLC

VARIABLES file, pc, idx, atoms, mol, abort, camera, close, calls, k, frameBegun

vars == <<file, pc, idx, atoms, mol, abort, camera, close, calls, k, frameBegun>>

\* ------------------------------------------------------------------ bounds
\* Largest number of lines of an input file.
MaxLines == 3
\* Largest number of lines of an input file of the load specification.
MaxLoadLines == 3
\* Decimal digits after the point of the numbers of the direct-translation
\* specification.
FracDigits == 1
\* Largest number of camera updates in the direct-translation specification.
MaxUpdates == 3

RECURSIVE Pow10(_)
Pow10(n) == IF n = 0 THEN 1 ELSE 10 * Pow10(n - 1)

\* One unit (1.0) of the decimal fixed-point numbers of the
\* direct-translation specification.
Scale == Pow10(FracDigits)

None == [none |-> TRUE]

\* ------------------------------------------------------------ element table
NATOMS == 13

SYMS == << <<"X">>, <<"H">>, <<"H", "e">>, <<"L", "i">>, <<"B", "e">>, <<"B">>,
           <<"C">>, <<"N">>, <<"O">>, <<"F">>, <<"N", "e">>, <<"N", "a">>,
           <<"M", "g">> >>

COLORS == << "BLACK", "WHITE", "BLACK", "BLACK", "BLACK", "BLACK", "BLACK",
             "BLUE", "RED", "BLACK", "BLACK", "BLACK", "BLACK" >>

\* ------------------------------------------------------------------ parsing
IsAsciiWhitespace(c) == c \in {" ", "\t", "\n", "\f", "\r"}

\* The places of s where a token begins: a character other than whitespace,
\* the first of s or after whitespace.
TokenStarts(s) ==
    {n \in 1..Len(s) : ~IsAsciiWhitespace(s[n]) /\ (n = 1 \/ IsAsciiWhitespace(s[n - 1]))}

\* The place where the c-th token begins.
TokenStart(s, c) ==
    CHOOSE n \in TokenStarts(s) : Cardinality({o \in TokenStarts(s) : o < n}) = c - 1

\* The place where the token that begins at n ends.
TokenEnd(s, n) ==
    CHOOSE to \in n..Len(s) :
        /\ (to = Len(s) \/ IsAsciiWhitespace(s[to + 1]))
        /\ \A at \in n..to : ~IsAsciiWhitespace(s[at])

TokenFrom(s, n) == SubSeq(s, n, TokenEnd(s, n))

\* str::split_ascii_whitespace: the maximal runs of non-whitespace characters,
\* from left to right.
SplitAsciiWhitespace(s) ==
    [c \in 1..Cardinality(TokenStarts(s)) |-> TokenFrom(s, TokenStart(s, c))]

\* ------------------------------------------------------- IEEE-754 binary32
\* An f32 is a record: cls is "fin", "inf" or "nan"; a finite value is
\* (-1)^neg * m * 2^e with 0 <= m < 2^24.  Normal numbers have m >= 2^23 and
\* -149 <= e <= 104, subnormal numbers and zero have e = -149; so every value
\* has one record.  All intermediate integers stay below 2^31.
Pow2(n) == 2^n

\* The number of bits of M, for 0 <= M < 2^31.
BitLen(M) ==
    IF M = 0 THEN 0
    ELSE CHOOSE b \in 1..31 : Pow2(b - 1) <= M /\ (b = 31 \/ M < Pow2(b))

F32Zero(neg) == [cls |-> "fin", neg |-> neg, m |-> 0, e |-> -149]

F32Inf(neg) == [cls |-> "inf", neg |-> neg, m |-> 0, e |-> 0]

F32NaN == [cls |-> "nan", neg |-> FALSE, m |-> 0, e |-> 0]

\* The value m * 2^e with m <= 2^24: a carry out of the significand moves to
\* the exponent, an exponent beyond the largest one gives infinity.
Pack(neg, m, e) ==
    IF m = Pow2(24) THEN IF e + 1 > 104 THEN F32Inf(neg)
                         ELSE [cls |-> "fin", neg |-> neg, m |-> Pow2(23), e |-> e + 1]
    ELSE IF e > 104 THEN F32Inf(neg)
    ELSE [cls |-> "fin", neg |-> neg, m |-> m, e |-> e]

\* M with its lowest sh >= 1 bits rounded away, to nearest, ties to even.
Nearest(M, sh) ==
    IF sh > 31 THEN 0
    ELSE IF sh = 31 THEN IF M > Pow2(30) THEN 1 ELSE 0
    ELSE IF \/ M % Pow2(sh) > Pow2(sh - 1)
            \/ (M % Pow2(sh) = Pow2(sh - 1) /\ (M \div Pow2(sh)) % 2 = 1)
         THEN M \div Pow2(sh) + 1
         ELSE M \div Pow2(sh)

\* M * 2^E rounded to a multiple of 2^q.
RoundAt(neg, M, E, q) ==
    IF q <= E THEN Pack(neg, M * Pow2(E - q), q) ELSE Pack(neg, Nearest(M, q - E), q)

\* The exponent of the lowest bit an f32 keeps of a value whose highest bit
\* has exponent top.
Quantum(top) == IF top - 23 < -149 THEN -149 ELSE top - 23

\* Round to nearest, ties to even: the f32 nearest to (-1)^neg * M * 2^E, for
\* 0 <= M < 2^31.  The lowest bit of M may stand for any non-zero amount below
\* it (a sticky bit), provided M then has at least 26 bits.
RoundF32(neg, M, E) ==
    IF M = 0 THEN F32Zero(neg) ELSE RoundAt(neg, M, E, Quantum(E + BitLen(M) - 1))

\* The f32 nearest to an integer, as a literal such as 3.0 denotes.
F32OfInt(n) == RoundF32(n < 0, IF n < 0 THEN 0 - n ELSE n, 0)

\* |a| < |b| for finite a and b.
MagLess(a, b) == a.e < b.e \/ (a.e = b.e /\ a.m < b.m)

\* x divided by p, the lowest bit set when the division leaves a remainder.
StickyDiv(x, p) == IF x % p # 0 /\ (x \div p) % 2 = 0 THEN x \div p + 1 ELSE x \div p

\* The significand of the smaller operand of a sum, with three more bits,
\* aligned to the exponent of the larger one d above it.
Aligned(m, d) == IF d > 27 THEN (IF m # 0 THEN 1 ELSE 0) ELSE StickyDiv(m * 8, Pow2(d))

\* big + small for finite operands with |big| >= |small|, B the aligned
\* significand of small; the exact sum is rounded once.
AddAligned(big, small, B) ==
    IF big.neg # small.neg /\ big.m * 8 = B THEN F32Zero(FALSE)
    ELSE RoundF32(big.neg,
                  IF big.neg = small.neg THEN big.m * 8 + B ELSE big.m * 8 - B,
                  big.e - 3)

AddOrdered(big, small) == AddAligned(big, small, Aligned(small.m, big.e - small.e))

\* a + b for finite a and b.
AddFinite(a, b) == IF MagLess(a, b) THEN AddOrdered(b, a) ELSE AddOrdered(a, b)

\* a + b
F32Add(a, b) ==
    IF a.cls = "nan" \/ b.cls = "nan" THEN F32NaN
    ELSE IF a.cls = "inf" /\ b.cls = "inf"
         THEN IF a.neg = b.neg THEN a ELSE F32NaN
    ELSE IF a.cls = "inf" THEN a
    ELSE IF b.cls = "inf" THEN b
    ELSE AddFinite(a, b)

F32Neg(a) == IF a.cls = "nan" THEN a ELSE [a EXCEPT !.neg = ~a.neg]

\* a - b
F32Sub(a, b) == F32Add(a, F32Neg(b))

\* A finite non-zero value with its significand shifted up to 24 bits.
Normalized(a) ==
    [a EXCEPT !.m = a.m * Pow2(24 - BitLen(a.m)), !.e = a.e - (24 - BitLen(a.m))]

\* The product hi * 2^24 + lo of two 24-bit significands, cut to 26 bits and
\* a sticky bit, and rounded.
MulHalves(neg, hi, lo, E) ==
    RoundF32(neg, (hi * 4 + lo \div Pow2(22)) * 2 + (IF lo % Pow2(22) # 0 THEN 1 ELSE 0),
             E + 21)

\* The product from the partial products of 12-bit limbs: hh * 2^24 +
\* mid * 2^12 + ll.
MulParts(neg, hh, mid, ll, E) ==
    MulHalves(neg, hh + mid \div 4096 + (ll + (mid % 4096) * 4096) \div Pow2(24),
              (ll + (mid % 4096) * 4096) % Pow2(24), E)

MulLimbs(neg, ah, al, bh, bl, E) == MulParts(neg, ah * bh, ah * bl + al * bh, al * bl, E)

MulNormal(neg, na, nb) ==
    MulLimbs(neg, na.m \div 4096, na.m % 4096, nb.m \div 4096, nb.m % 4096, na.e + nb.e)

\* a * b for finite non-zero a and b.
MulFinite(a, b) == MulNormal(a.neg # b.neg, Normalized(a), Normalized(b))

\* a * b
F32Mul(a, b) ==
    IF a.cls = "nan" \/ b.cls = "nan" THEN F32NaN
    ELSE IF a.cls = "inf" \/ b.cls = "inf"
         THEN IF (a.cls = "fin" /\ a.m = 0) \/ (b.cls = "fin" /\ b.m = 0)
              THEN F32NaN ELSE F32Inf(a.neg # b.neg)
    ELSE IF a.m = 0 \/ b.m = 0 THEN F32Zero(a.neg # b.neg)
    ELSE MulFinite(a, b)

\* w more bits of a quotient: st holds the bits to come, the quotient and the
\* remainder so far.
DivStep(st, den, w) ==
    [n |-> st.n - w, q |-> st.q * Pow2(w) + (st.rem * Pow2(w)) \div den,
     rem |-> (st.rem * Pow2(w)) % den]

\* Long division by den < 2^24, six bits of the quotient per step.
RECURSIVE DivBits(_, _)
DivBits(den, st) ==
    IF st.n = 0 THEN st ELSE DivBits(den, DivStep(st, den, IF st.n >= 6 THEN 6 ELSE st.n))

DivRounded(neg, d, E) == RoundF32(neg, 2 * d.q + (IF d.rem # 0 THEN 1 ELSE 0), E - 27)

\* floor(na.m * 2^26 / nb.m), a number of 26 or 27 bits, and whether the
\* division leaves a remainder.
DivNormal(neg, na, nb) ==
    DivRounded(neg, DivBits(nb.m, [n |-> 26, q |-> na.m \div nb.m, rem |-> na.m % nb.m]),
               na.e - nb.e)

\* a / b for finite non-zero a and b.
DivFinite(a, b) == DivNormal(a.neg # b.neg, Normalized(a), Normalized(b))

\* a / b
F32Div(a, b) ==
    IF a.cls = "nan" \/ b.cls = "nan" THEN F32NaN
    ELSE IF a.cls = "inf"
         THEN IF b.cls = "inf" THEN F32NaN ELSE F32Inf(a.neg # b.neg)
    ELSE IF b.cls = "inf" THEN F32Zero(a.neg # b.neg)
    ELSE IF b.m = 0 THEN IF a.m = 0 THEN F32NaN ELSE F32Inf(a.neg # b.neg)
    ELSE IF a.m = 0 THEN F32Zero(a.neg # b.neg)
    ELSE DivFinite(a, b)

\* The digit-by-digit square root of X * 2^28, X < 2^26, a root of 27 bits.
\* The radicand is 27 pairs of bits: the 13 pairs of X, then zero pairs.
\* The w pairs from pair n on, as a number.
SqrtPairs(X, n, w) ==
    IF n >= 13 THEN 0
    ELSE IF n + w <= 13 THEN (X \div Pow2(2 * (13 - n - w))) % Pow2(2 * w)
    ELSE (X % Pow2(2 * (13 - n))) * Pow2(2 * (n + w - 13))

\* The next w bits of the root: r is the root so far, cur the remainder with
\* the next w pairs brought down; the largest d with (2^(w+1) r + d) d <= cur.
SqrtDigit(r, cur, w) ==
    CHOOSE d \in 0..(Pow2(w) - 1) :
        /\ (2 * Pow2(w) * r + d) * d <= cur
        /\ (d = Pow2(w) - 1 \/ (2 * Pow2(w) * r + d + 1) * (d + 1) > cur)

SqrtWith(s, cur, w, d) ==
    [n |-> s.n + w, r |-> Pow2(w) * s.r + d, rem |-> cur - (2 * Pow2(w) * s.r + d) * d]

SqrtDown(s, cur, w) == SqrtWith(s, cur, w, SqrtDigit(s.r, cur, w))

\* w more bits of the root: s holds the bits done, the root and the remainder
\* so far.
SqrtStep(X, s, w) == SqrtDown(s, Pow2(2 * w) * s.rem + SqrtPairs(X, s.n, w), w)

\* Six steps of four bits, then three steps of one bit, so that no number
\* reaches 2^31.
RECURSIVE SqrtBits(_, _)
SqrtBits(X, s) ==
    IF s.n = 27 THEN s ELSE SqrtBits(X, SqrtStep(X, s, IF s.n < 24 THEN 4 ELSE 1))

SqrtRounded(s, E) == RoundF32(FALSE, 2 * s.r + (IF s.rem # 0 THEN 1 ELSE 0), E \div 2 - 15)

\* sqrt(X * 2^E) for even E.
SqrtEven(X, E) == SqrtRounded(SqrtBits(X, [n |-> 0, r |-> 0, rem |-> 0]), E)

SqrtNormal(na) == SqrtEven(IF na.e % 2 = 0 THEN na.m ELSE 2 * na.m,
                           IF na.e % 2 = 0 THEN na.e ELSE na.e - 1)

\* sqrt(a) for finite a > 0, correctly rounded.
SqrtFinite(a) == SqrtNormal(Normalized(a))

\* f32::sqrt
F32Sqrt(a) ==
    IF a.cls = "nan" THEN F32NaN
    ELSE IF a.cls = "fin" /\ a.m = 0 THEN a
    ELSE IF a.neg THEN F32NaN
    ELSE IF a.cls = "inf" THEN a
    ELSE SqrtFinite(a)

IsZero(a) == a.cls = "fin" /\ a.m = 0

\* |a| < |b| for a and b other than NaN.
MagLt(a, b) == a.cls = "fin" /\ (b.cls = "inf" \/ MagLess(a, b))

\* a < b
F32Lt(a, b) ==
    IF a.cls = "nan" \/ b.cls = "nan" THEN FALSE
    ELSE IF IsZero(a) /\ IsZero(b) THEN FALSE
    ELSE IF a.neg # b.neg THEN a.neg
    ELSE IF a.neg THEN MagLt(b, a) ELSE MagLt(a, b)

\* ----------------------------------------------------------- parsing an f32
DigitChars == {"0", "1", "2", "3", "4", "5", "6", "7", "8", "9"}

DigitVal(c) ==
    CASE c = "0" -> 0 [] c = "1" -> 1 [] c = "2" -> 2 [] c = "3" -> 3
      [] c = "4" -> 4 [] c = "5" -> 5 [] c = "6" -> 6 [] c = "7" -> 7
      [] c = "8" -> 8 [] c = "9" -> 9

\* The lower-case form of the letters of "infinity" and "nan".
LowerChar(c) ==
    CASE c = "I" -> "i" [] c = "N" -> "n" [] c = "F" -> "f" [] c = "T" -> "t"
      [] c = "Y" -> "y" [] c = "A" -> "a" [] OTHER -> c

Lower(tok) == [n \in 1..Len(tok) |-> LowerChar(tok[n])]

\* The end of the run of digits of s that starts after its first n characters.
DigitRun(s, n) ==
    CHOOSE to \in n..Len(s) :
        /\ (to = Len(s) \/ s[to + 1] \notin DigitChars)
        /\ \A at \in (n + 1)..to : s[at] \in DigitChars

\* The digits s[from + 1 .. to].
Digits(s, from, to) == [n \in 1..(to - from) |-> DigitVal(s[from + n])]

\* The number of zeros ds begins with.
LeadingZeros(ds) ==
    CHOOSE z \in 0..Len(ds) :
        /\ (z = Len(ds) \/ ds[z + 1] # 0)
        /\ \A at \in 1..z : ds[at] = 0

\* The number of zeros ds ends with.
TrailingZeros(ds) ==
    CHOOSE z \in 0..Len(ds) :
        /\ (z = Len(ds) \/ ds[Len(ds) - z] # 0)
        /\ \A at \in (Len(ds) - z + 1)..Len(ds) : ds[at] = 0

StripLeadingZeros(ds) == SubSeq(ds, LeadingZeros(ds) + 1, Len(ds))

StripTrailingZeros(ds) == SubSeq(ds, 1, Len(ds) - TrailingZeros(ds))

\* The digit of ds that stands for 10^p.
DigitAtPower(ds, p) == IF p < Len(ds) THEN ds[Len(ds) - p] ELSE 0

\* The number with at most five digits ds.
SmallVal(ds) ==
    DigitAtPower(ds, 0) + 10 * DigitAtPower(ds, 1) + 100 * DigitAtPower(ds, 2)
        + 1000 * DigitAtPower(ds, 3) + 10000 * DigitAtPower(ds, 4)

\* The saturation bound 0x10000 of the exponent of parse_scientific.
ExpSaturation == 65536

\* parse_scientific on exponent digits ds without leading zeros: from the left,
\* exponent = 10 * exponent + digit for every digit read while exponent is
\* below 0x10000.  A number of five digits is below 100000, so that the fifth
\* digit is always taken; the sixth is taken when the first five are below
\* 0x10000, and then the exponent is 100000 at least and no digit after it
\* is taken.
ExpDigitsVal(ds) ==
    IF Len(ds) <= 5 THEN SmallVal(ds)
    ELSE IF SmallVal(SubSeq(ds, 1, 5)) >= ExpSaturation THEN SmallVal(SubSeq(ds, 1, 5))
    ELSE 10 * SmallVal(SubSeq(ds, 1, 5)) + ds[6]

\* Leading zeros leave the exponent at 0.
ExpVal(ds) == ExpDigitsVal(StripLeadingZeros(ds))

\* The syntax of a decimal number: digits, an optional '.' and digits (one
\* digit at least in all), an optional exponent 'e' or 'E' with an optional
\* sign and one digit at least; nothing may follow.  The scan goes from left
\* to right: the integer digits are s[1..ni], the fraction digits
\* s[fs+1..fe], the exponent digits s[es+1..ee].  The result holds the digits
\* before and after the point and the exponent.
Decimal(s, ni, fs, fe, es, ee, eneg) ==
    IF ee # Len(s) THEN [ok |-> FALSE]
    ELSE [ok |-> TRUE, ip |-> Digits(s, 0, ni), fp |-> Digits(s, fs, fe),
          ex |-> IF eneg THEN 0 - ExpVal(Digits(s, es, ee))
                 ELSE ExpVal(Digits(s, es, ee))]

ExponentDigits(s, ni, fs, fe, es, ee, eneg) ==
    IF ee = es THEN [ok |-> FALSE] ELSE Decimal(s, ni, fs, fe, es, ee, eneg)

ExponentSign(s, ni, fs, fe, p) ==
    IF p < Len(s) /\ s[p + 1] \in {"-", "+"}
    THEN ExponentDigits(s, ni, fs, fe, p + 1, DigitRun(s, p + 1), s[p + 1] = "-")
    ELSE ExponentDigits(s, ni, fs, fe, p, DigitRun(s, p), FALSE)

AfterFraction(s, ni, fs, fe) ==
    IF ni + (fe - fs) = 0 THEN [ok |-> FALSE]
    ELSE IF fe < Len(s) /\ s[fe + 1] \in {"e", "E"} THEN ExponentSign(s, ni, fs, fe, fe + 1)
    ELSE Decimal(s, ni, fs, fe, fe, fe, FALSE)

AfterInteger(s, ni) ==
    IF ni < Len(s) /\ s[ni + 1] = "." THEN AfterFraction(s, ni, ni + 1, DigitRun(s, ni + 1))
    ELSE AfterFraction(s, ni, ni, ni)

ParseNumber(s) == AfterInteger(s, DigitRun(s, 0))

Zeros(n) == [i \in 1..n |-> 0]

\* The decimal digit of ds at place n, ds read as if it began with lead zeros.
PaddedDigit(ds, lead, n) == IF n > lead THEN ds[n - lead] ELSE 0

\* The digits in base 100 of the natural number with decimal digits ds.
IntPairs(ds) ==
    [n \in 1..((Len(ds) + 1) \div 2) |->
        10 * PaddedDigit(ds, Len(ds) % 2, 2 * n - 1) + PaddedDigit(ds, Len(ds) % 2, 2 * n)]

\* The digits in base 100 of the fraction with decimal digits ds.
FracPairs(ds) ==
    [n \in 1..((Len(ds) + 1) \div 2) |->
        10 * ds[2 * n - 1] + (IF 2 * n <= Len(ds) THEN ds[2 * n] ELSE 0)]

\* One digit of a division by 2^24, from the left: st holds the digits done,
\* the remainder and the quotient digits, v is the remainder with the next
\* digit appended.
DivDigit(st, v) ==
    [n |-> st.n + 1, rem |-> v % Pow2(24), acc |-> Append(st.acc, v \div Pow2(24))]

\* The number with digits ds in base 100 divided by 2^24: the digits of the
\* quotient and the remainder.
RECURSIVE DivLimb(_, _)
DivLimb(ds, st) ==
    IF st.n = Len(ds) THEN [q |-> StripLeadingZeros(st.acc), rem |-> st.rem]
    ELSE DivLimb(ds, DivDigit(st, st.rem * 100 + ds[st.n + 1]))

\* The natural number with digits ds in base 100, in base 2^24, highest limb
\* first.
RECURSIVE IntLimbs(_, _)
IntLimbs(ds, acc) ==
    IF ds = <<>> THEN acc
    ELSE LET d == DivLimb(ds, [n |-> 0, rem |-> 0, acc |-> <<>>])
         IN  IntLimbs(d.q, <<d.rem>> \o acc)

\* One digit of a multiplication by 2^24, from the right: st holds the digits
\* left, the carry and the product digits, v is the digit times 2^24 plus the
\* carry.
MulDigit(st, v) ==
    [n |-> st.n - 1, carry |-> v \div 100, acc |-> <<v % 100>> \o st.acc]

\* The fraction with digits ds in base 100 multiplied by 2^24: the digits of
\* the fraction part of the product and its integer part, the last carry.
RECURSIVE MulLimb(_, _)
MulLimb(ds, st) ==
    IF st.n = 0 THEN [f |-> StripTrailingZeros(st.acc), limb |-> st.carry]
    ELSE MulLimb(ds, MulDigit(st, ds[st.n] * Pow2(24) + st.carry))

\* The largest number of limbs taken of a fraction.  They reach down to
\* 2^-216, far below half the least subnormal f32 (2^-150).
FracLimbCount == 9

\* One more limb d.limb of a fraction: st holds the digits left, the limbs
\* taken and the number of limbs still wanted, which counts down from the
\* first limb that is not zero.
FracStep(st, d) ==
    [fp |-> d.f, acc |-> Append(st.acc, d.limb),
     left |-> IF st.left < 3 \/ d.limb # 0 THEN st.left - 1 ELSE st.left]

\* The limbs in base 2^24 of the fraction with digits st.fp (in base 100), as
\* far as the three highest limbs of the number need them, and whether
\* anything non-zero is left below them.
RECURSIVE FracLimbs(_)
FracLimbs(st) ==
    IF st.left = 0 \/ st.fp = <<>> \/ Len(st.acc) = FracLimbCount
    THEN [limbs |-> st.acc, rest |-> st.fp # <<>>]
    ELSE FracLimbs(FracStep(st, MulLimb(st.fp, [n |-> Len(st.fp), carry |-> 0, acc |-> <<>>])))

\* The index of the first non-zero limb from n on, of the last limb if none.
FirstNonZero(limbs, n) ==
    CHOOSE t \in n..Len(limbs) :
        /\ \A at \in n..(t - 1) : limbs[at] = 0
        /\ (t = Len(limbs) \/ limbs[t] # 0)

LimbAt(limbs, n) == IF n <= Len(limbs) THEN limbs[n] ELSE 0

\* Some limb after the n-th is not zero.
AnyBelow(limbs, n) == \E o \in (n + 1)..Len(limbs) : limbs[o] # 0

\* The highest 26 bits of three limbs: top shifted up by lift = 26 minus its
\* number of bits, filled from next and third.
CutBits(top, next, third, lift) ==
    IF lift <= 24 THEN top * Pow2(lift) + next \div Pow2(24 - lift)
    ELSE top * Pow2(25) + next * 2 + third \div Pow2(23)

\* Something non-zero lies below those 26 bits.
CutSticky(next, third, below, lift) ==
    IF lift <= 24 THEN next % Pow2(24 - lift) # 0 \/ third # 0 \/ below
    ELSE third % Pow2(23) # 0 \/ below

\* The value top * 2^E + next * 2^(E-24) + third * 2^(E-48) + ..., rounded.
Cut(neg, top, next, third, below, E, lift) ==
    RoundF32(neg, 2 * CutBits(top, next, third, lift)
                  + (IF CutSticky(next, third, below, lift) THEN 1 ELSE 0),
             E - lift - 1)

\* t is the index of the highest non-zero limb, ni the number of limbs of the
\* integer part.
FromTop(neg, limbs, rest, ni, t) ==
    Cut(neg, limbs[t], LimbAt(limbs, t + 1), LimbAt(limbs, t + 2),
        rest \/ AnyBelow(limbs, t + 2), 24 * (ni - t), 26 - BitLen(limbs[t]))

FromLimbs(neg, il, fl) ==
    FromTop(neg, il \o fl.limbs, fl.rest, Len(il), FirstNonZero(il \o fl.limbs, 1))

\* il are the limbs of the integer part; of the fraction, the limbs are taken
\* that the three highest limbs of the number need.
WithInteger(neg, il, fp) ==
    FromLimbs(neg, il, FracLimbs([fp |-> fp, acc |-> <<>>,
                                  left |-> IF Len(il) >= 3 THEN 0 ELSE 3 - Len(il)]))

\* The f32 nearest to the decimal number with integer digits ip (no leading
\* zero) and fraction digits fp (no trailing zero): its highest 26 bits are
\* cut out of its limbs, one more bit stands for all that is below them, and
\* the whole is rounded once.
DecimalToF32(neg, ip, fp) == WithInteger(neg, IntLimbs(IntPairs(ip), <<>>), FracPairs(fp))

\* The digits before the decimal point of 0.sig * 10^pt.
IntegerPart(sig, pt) ==
    IF pt <= 0 THEN <<>>
    ELSE IF pt >= Len(sig) THEN sig \o Zeros(pt - Len(sig))
    ELSE SubSeq(sig, 1, pt)

\* The digits after the decimal point of 0.sig * 10^pt.
FractionPart(sig, pt) ==
    IF pt <= 0 THEN Zeros(0 - pt) \o sig
    ELSE IF pt >= Len(sig) THEN <<>>
    ELSE SubSeq(sig, pt + 1, Len(sig))

\* The f32 nearest to 0.sig * 10^pt, sig without leading and trailing zeros.
\* A number of 40 integer digits or more is beyond every finite f32; one
\* below 10^-46 is below half the least subnormal f32.
Positioned(neg, sig, pt) ==
    IF sig = <<>> THEN F32Zero(neg)
    ELSE IF pt >= 40 THEN F32Inf(neg)
    ELSE IF pt <= -46 THEN F32Zero(neg)
    ELSE DecimalToF32(neg, IntegerPart(sig, pt), FractionPart(sig, pt))

\* ds are the digits without leading zeros, sh the exponent of the last one.
Significant(neg, ds, sh) == Positioned(neg, StripTrailingZeros(ds), Len(ds) + sh)

\* The f32 nearest to the number ip.fp * 10^ex.
ScaledToF32(neg, ip, fp, ex) == Significant(neg, StripLeadingZeros(ip \o fp), ex - Len(fp))

\* "inf", "infinity" and "nan" in any case.
ParseSpecial(neg, low) ==
    IF low = <<"n", "a", "n">> THEN [ok |-> TRUE, v |-> F32NaN]
    ELSE IF low \in {<<"i", "n", "f">>, <<"i", "n", "f", "i", "n", "i", "t", "y">>}
         THEN [ok |-> TRUE, v |-> F32Inf(neg)]
    ELSE [ok |-> FALSE, v |-> F32NaN]

ParseBody(neg, body, num) ==
    IF num.ok THEN [ok |-> TRUE, v |-> ScaledToF32(neg, num.ip, num.fp, num.ex)]
    ELSE ParseSpecial(neg, Lower(body))

ParseUnsigned(neg, body) ==
    IF body = <<>> THEN [ok |-> FALSE, v |-> F32NaN]
    ELSE ParseBody(neg, body, ParseNumber(body))

\* <f32 as FromStr>::from_str: an optional sign, then a decimal number, or
\* "inf", "infinity" or "nan" in any case; the value is the nearest f32.
ParseF32(tok) ==
    ParseUnsigned(tok # <<>> /\ tok[1] = "-",
                  IF tok # <<>> /\ tok[1] \in {"-", "+"} THEN Tail(tok) ELSE tok)

\* Every entry of the table is 1.0.
RADII == [e \in 1..NATOMS |-> F32OfInt(1)]

\* SYMS.iter().position(|&s| s == sym): the 0-based index of the first match,
\* or -1 for None.
RECURSIVE PositionFrom(_, _)
PositionFrom(sym, n) ==
    IF n > Len(SYMS) THEN -1
    ELSE IF SYMS[n] = sym THEN n - 1 ELSE PositionFrom(sym, n + 1)

Position(sym) == PositionFrom(sym, 1)

\* The outcome of the struct expression of from_str from the values of its
\* fields, evaluated in the order written: w, x, y, z.  `expect` panics inside
\* the parser, `?` returns the error of the first number that does not parse.
AtomFromParts(w, x, y, z) ==
    IF w = -1 THEN [kind |-> "Panic", err |-> "unknown atom"]
    ELSE IF ~x.ok \/ ~y.ok \/ ~z.ok THEN [kind |-> "Err", err |-> "ParseFloatError"]
    ELSE [kind |-> "Ok", atom |-> [w |-> w, x |-> x.v, y |-> y.v, z |-> z.v]]

\* Mutant of AtomFromTokens: tokens 2 and 3 are assigned to z and y.
AtomFromTokensSwapped(sp) ==
    IF Len(sp) # 4 THEN [kind |-> "Err", err |-> "invalid line length for Atom"]
    ELSE AtomFromParts(Position(sp[1]), ParseF32(sp[2]), ParseF32(sp[4]), ParseF32(sp[3]))

\* from_str after the split: the length test, then the struct expression.
AtomFromTokens(sp) ==
    IF Len(sp) # 4 THEN [kind |-> "Err", err |-> "invalid line length for Atom"]
    ELSE AtomFromParts(Position(sp[1]), ParseF32(sp[2]), ParseF32(sp[3]), ParseF32(sp[4]))

\* <Atom as FromStr>::from_str.  The outcome is Ok(atom), a returned Err, or a
\* panic raised inside the parser by `expect`.
AtomFromStr(s) == AtomFromTokens(SplitAsciiWhitespace(s))

\* ------------------------------------------------------------ bond inference
\* f32::powi(2)
Sq(a) == F32Mul(a, a)

\* dist of load_xyz: the three squares are added from left to right.
Dist(a, b) ==
    F32Sqrt(F32Add(F32Add(Sq(F32Sub(a.x, b.x)), Sq(F32Sub(a.y, b.y))),
                   Sq(F32Sub(a.z, b.z))))

\* The literal 3.0 of `dist < 3.0`.
Threshold == F32OfInt(3)

\* Mutant of Bonded: the comparison is `dist <= 3.0`.
BondedInclusive(a, b) == ~F32Lt(Threshold, Dist(a, b)) /\ Dist(a, b).cls # "nan"

Bonded(a, b) == F32Lt(Dist(a, b), Threshold)

\* The pairs (i, j) of a square of side n, row by row.
Square(n) == [c \in 1..(n * n) |-> <<(c - 1) \div n, (c - 1) % n>>]

\* Mutant of InLoop: the inner loop starts at j = i.
InLoopFromSelf(p) == p[1] <= p[2]

\* j is in i + 1..n
InLoop(p) == p[1] < p[2]

\* The pairs (i, j) the double loop over i in 0..n, j in i + 1..n visits, in
\* the order it visits them; indices are 0-based as in the program, the TLA+
\* sequence is 1-based.
LoopPairs(n) == SelectSeq(Square(n), InLoop)

\* The double loop of load_xyz: a visited pair is pushed when its atoms are
\* less than 3.0 apart.
InferBonds(as) ==
    LET Close(p) == Bonded(as[p[1] + 1], as[p[2] + 1])
    IN  SelectSeq(LoopPairs(Len(as)), Close)

\* ------------------------------------------------------------------- inputs
\* Lines of the input file, as read_to_string(..).lines() yields them.  A line
\* is the sequence of its bytes in UTF-8, which is what str::len counts and
\* what split_ascii_whitespace and the number parser read: a byte of an ASCII
\* character is written as that character, any other byte as its two
\* hexadecimal digits.
LnCount   == <<"2">>
\* The one character U+00E9 (e with acute accent), two bytes.
LnAcute   == <<"C3", "A9">>
LnComment == <<"h", "i">>
LnO       == <<"O", " ", "0", " ", "0", " ", "0">>
LnH       == <<"H", " ", "1", ".", "5", " ", "0", " ", "0">>
LnC       == <<"C", " ", "3", ".", "0", " ", "0", ".", " ", ".", "0">>
LnHe      == <<" ", "H", "e", "\t", "2", " ", " ", "2", " ", "-", "1", " ">>
LnN       == <<"N", " ", "5", " ", "0", " ", "0">>
LnZz      == <<"Z", "z", " ", "0", " ", "0", " ", "0">>
LnAbc     == <<"O", " ", "0", " ", "a", "b", "c", " ", "0">>
LnThree   == <<"Z", "z", " ", "0", " ", "0">>
LnFive    == <<"O", " ", "0", " ", "a", "b", "c", " ", "0", " ", "0">>

Lines == {LnCount, LnAcute, LnComment, LnO, LnH, LnC, LnHe, LnN, LnZz, LnAbc,
          LnThree, LnFive}

SeqsUpTo(S, n) == UNION {[1..m -> S] : m \in 0..n}

\* The file at the fixed path: missing or unreadable, or a text of lines.
Files == {[readable |-> FALSE, lines |-> <<>>]}
         \cup {[readable |-> TRUE, lines |-> ls] : ls \in SeqsUpTo(Lines, MaxLines)}

\* --------------------------------------------------------------------- state
\* The camera of main, before the first frame.
InitCamera ==
    [position |-> <<F32OfInt(0), F32OfInt(0), F32OfInt(-5)>>,
     target |-> <<F32OfInt(0), F32OfInt(0), F32OfInt(0)>>,
     up |-> <<F32OfInt(0), F32OfInt(1), F32OfInt(0)>>, fovy |-> F32OfInt(90),
     projection |-> "CAMERA_PERSPECTIVE"]

\* Poses the rendering library's third-person update can leave in the camera;
\* the update is external to the program and is treated as opaque.
ThirdPersonPoses ==
    {InitCamera,
     [InitCamera EXCEPT !.position = <<F32OfInt(5), F32OfInt(0), F32OfInt(1)>>,
                        !.target = <<F32OfInt(0), F32OfInt(0), F32OfInt(1)>>]}

AsVec(a) == <<a.x, a.y, a.z>>

Init ==
    /\ file \in Files
    /\ pc = "load_xyz"
    /\ idx = 0
    /\ atoms = <<>>
    /\ mol = None
    /\ abort = None
    /\ camera = InitCamera
    /\ close = FALSE
    /\ calls = <<>>
    /\ k = 0
    /\ frameBegun = FALSE

\* ---------------------------------------------------------------------- load
\* read_to_string(path).unwrap()
ReadToString ==
    /\ pc = "load_xyz"
    /\ IF file.readable
       THEN pc' = "lines" /\ abort' = abort
       ELSE pc' = "aborted" /\ abort' = [kind |-> "Panic", err |-> "io::Error"]
    /\ UNCHANGED <<file, idx, atoms, mol, camera, close, calls, k, frameBegun>>

\* The header test of the loop over the enumerated lines: i == 0 &&
\* line.len() == 1, the length in bytes.
IsHeader(i, line) == i = 0 /\ Len(line) = 1

\* The loop of load_xyz over the lines as a function of the text: the atoms
\* pushed when every data line parses, no atoms at all when one does not.
RECURSIVE LoadFrom(_, _, _)
LoadFrom(ls, i, acc) ==
    IF i >= Len(ls) THEN [ok |-> TRUE, atoms |-> acc]
    ELSE IF IsHeader(i, ls[i + 1]) THEN LoadFrom(ls, i + 2, acc)
    ELSE IF AtomFromStr(ls[i + 1]).kind = "Ok"
         THEN LoadFrom(ls, i + 1, Append(acc, AtomFromStr(ls[i + 1]).atom))
         ELSE [ok |-> FALSE, atoms |-> <<>>]

LoadAtoms(ls) == LoadFrom(ls, 0, <<>>)

\* Mutant of SkipHeader: only the one-byte line is discarded, not the comment.
SkipHeaderOnly ==
    /\ pc = "lines"
    /\ idx < Len(file.lines)
    /\ IsHeader(idx, file.lines[idx + 1])
    /\ idx' = idx + 1
    /\ UNCHANGED <<file, pc, atoms, mol, abort, camera, close, calls, k, frameBegun>>

\* lines.next() is Some((0, line)) with a one-byte line: the line and the one
\* after it (if any) are consumed and nothing is pushed.
SkipHeader ==
    /\ pc = "lines"
    /\ idx < Len(file.lines)
    /\ IsHeader(idx, file.lines[idx + 1])
    /\ idx' = idx + 2
    /\ UNCHANGED <<file, pc, atoms, mol, abort, camera, close, calls, k, frameBegun>>

\* atoms.push(line.parse().unwrap()) with a line that parses.
PushAtom ==
    /\ pc = "lines"
    /\ idx < Len(file.lines)
    /\ ~IsHeader(idx, file.lines[idx + 1])
    /\ AtomFromStr(file.lines[idx + 1]).kind = "Ok"
    /\ atoms' = Append(atoms, AtomFromStr(file.lines[idx + 1]).atom)
    /\ idx' = idx + 1
    /\ UNCHANGED <<file, pc, mol, abort, camera, close, calls, k, frameBegun>>

\* Mutant of ParseFail: a line that does not parse is dropped and the load goes on.
ParseFailSkipsLine ==
    /\ pc = "lines"
    /\ idx < Len(file.lines)
    /\ ~IsHeader(idx, file.lines[idx + 1])
    /\ AtomFromStr(file.lines[idx + 1]).kind # "Ok"
    /\ idx' = idx + 1
    /\ UNCHANGED <<file, pc, atoms, mol, abort, camera, close, calls, k, frameBegun>>

\* line.parse().unwrap() with a line that does not parse: the parser returns
\* Err and unwrap panics, or the parser itself panics.
ParseFail ==
    /\ pc = "lines"
    /\ idx < Len(file.lines)
    /\ ~IsHeader(idx, file.lines[idx + 1])
    /\ AtomFromStr(file.lines[idx + 1]).kind # "Ok"
    /\ abort' = AtomFromStr(file.lines[idx + 1])
    /\ pc' = "aborted"
    /\ UNCHANGED <<file, idx, atoms, mol, camera, close, calls, k, frameBegun>>

\* lines.next() is None: the double loop runs and load_xyz returns the Molecule.
BuildMolecule ==
    /\ pc = "lines"
    /\ idx >= Len(file.lines)
    /\ mol' = [atoms |-> atoms, bonds |-> InferBonds(atoms)]
    /\ pc' = "should_close"
    /\ UNCHANGED <<file, idx, atoms, abort, camera, close, calls, k, frameBegun>>

\* --------------------------------------------------------------- render loop
\* Mutant of ShouldClose: the loop condition lacks its negation.
ShouldCloseInverted ==
    /\ pc = "should_close"
    /\ calls' = <<[op |-> "should_close", result |-> close]>>
    /\ pc' = IF close THEN "begin_drawing" ELSE "exited"
    /\ UNCHANGED <<file, idx, atoms, mol, abort, camera, close, k, frameBegun>>

\* while !win.should_close()
ShouldClose ==
    /\ pc = "should_close"
    /\ calls' = <<[op |-> "should_close", result |-> close]>>
    /\ pc' = IF close THEN "exited" ELSE "begin_drawing"
    /\ UNCHANGED <<file, idx, atoms, mol, abort, camera, close, k, frameBegun>>

BeginDrawing ==
    /\ pc = "begin_drawing"
    /\ calls' = Append(calls, [op |-> "begin_drawing"])
    /\ frameBegun' = TRUE
    /\ pc' = "clear_background"
    /\ UNCHANGED <<file, idx, atoms, mol, abort, camera, close, k>>

ClearBackground ==
    /\ pc = "clear_background"
    /\ calls' = Append(calls, [op |-> "clear_background", color |-> "0x383838AA"])
    /\ pc' = "begin_mode3d"
    /\ UNCHANGED <<file, idx, atoms, mol, abort, camera, close, k, frameBegun>>

\* win.begin_mode3d(camera): the camera is passed by value.
BeginMode3d ==
    /\ pc = "begin_mode3d"
    /\ calls' = Append(calls, [op |-> "begin_mode3d", camera |-> camera])
    /\ pc' = "update_camera"
    /\ UNCHANGED <<file, idx, atoms, mol, abort, camera, close, k, frameBegun>>

\* win.update_camera(&mut camera, CameraMode::ThirdPerson)
UpdateCamera ==
    /\ pc = "update_camera"
    /\ \E pose \in ThirdPersonPoses :
          /\ camera' = pose
          /\ calls' = Append(calls, [op |-> "update_camera", mode |-> "ThirdPerson",
                                     camera |-> pose])
    /\ pc' = "draw_spheres"
    /\ k' = 0
    /\ UNCHANGED <<file, idx, atoms, mol, abort, close, frameBegun>>

\* The arguments of the draw_sphere call for one atom.
SphereCall(atom) ==
    [op |-> "draw_sphere", center |-> AsVec(atom),
     radius |-> F32Div(RADII[atom.w + 1], F32OfInt(2)),
     color |-> COLORS[atom.w + 1]]

DrawSphere ==
    /\ pc = "draw_spheres"
    /\ k < Len(mol.atoms)
    /\ calls' = Append(calls, SphereCall(mol.atoms[k + 1]))
    /\ k' = k + 1
    /\ UNCHANGED <<file, pc, idx, atoms, mol, abort, camera, close, frameBegun>>

SpheresDone ==
    /\ pc = "draw_spheres"
    /\ k >= Len(mol.atoms)
    /\ pc' = "draw_cylinders"
    /\ k' = 0
    /\ UNCHANGED <<file, idx, atoms, mol, abort, camera, close, calls, frameBegun>>

\* The literal 0.1 of the draw_cylinder call.
CylinderRadius == ParseF32(<<"0", ".", "1">>).v

\* Mutant of CylinderCall: both ends are the bond's first atom.
CylinderCallSameEnd(m, b) ==
    [op |-> "draw_cylinder", start |-> AsVec(m.atoms[b[1] + 1]),
     end |-> AsVec(m.atoms[b[1] + 1]), radius |-> CylinderRadius,
     color |-> "LIGHTGRAY"]

\* The arguments of the draw_cylinder call for one bond (i, j).
CylinderCall(m, b) ==
    [op |-> "draw_cylinder", start |-> AsVec(m.atoms[b[1] + 1]),
     end |-> AsVec(m.atoms[b[2] + 1]), radius |-> CylinderRadius,
     color |-> "LIGHTGRAY"]

DrawCylinder ==
    /\ pc = "draw_cylinders"
    /\ k < Len(mol.bonds)
    /\ calls' = Append(calls, CylinderCall(mol, mol.bonds[k + 1]))
    /\ k' = k + 1
    /\ UNCHANGED <<file, pc, idx, atoms, mol, abort, camera, close, frameBegun>>

CylindersDone ==
    /\ pc = "draw_cylinders"
    /\ k >= Len(mol.bonds)
    /\ pc' = "end_mode3d"
    /\ k' = 0
    /\ UNCHANGED <<file, idx, atoms, mol, abort, camera, close, calls, frameBegun>>

EndMode3d ==
    /\ pc = "end_mode3d"
    /\ calls' = Append(calls, [op |-> "end_mode3d"])
    /\ pc' = "end_drawing"
    /\ UNCHANGED <<file, idx, atoms, mol, abort, camera, close, k, frameBegun>>

EndDrawing ==
    /\ pc = "end_drawing"
    /\ calls' = Append(calls, [op |-> "end_drawing"])
    /\ pc' = "should_close"
    /\ UNCHANGED <<file, idx, atoms, mol, abort, camera, close, k, frameBegun>>

\* The user closes the window (the environment raises the close signal, which
\* stays raised); the window exists from before the load.
RequestClose ==
    /\ pc \notin {"aborted", "exited", "direct"}
    /\ close = FALSE
    /\ close' = TRUE
    /\ UNCHANGED <<file, pc, idx, atoms, mol, abort, camera, calls, k, frameBegun>>

Next ==
    \/ ReadToString
    \/ SkipHeader
    \/ PushAtom
    \/ ParseFail
    \/ BuildMolecule
    \/ ShouldClose
    \/ BeginDrawing
    \/ ClearBackground
    \/ BeginMode3d
    \/ UpdateCamera
    \/ DrawSphere
    \/ SpheresDone
    \/ DrawCylinder
    \/ CylindersDone
    \/ EndMode3d
    \/ EndDrawing
    \/ RequestClose

Spec == Init /\ [][Next]_vars

\* ------------------------------------------------------- the load by itself
\* The load of main with input lines that exercise the number parser and the
\* distance test: exponents, long fractions, values beyond 2^24 and beyond the
\* largest f32, infinities and NaN, pairs at and next to the threshold.
\* "3"
LdCount == <<"3">>
\* "O 3 0 0"
LdA == <<"O", " ", "3", " ", "0", " ", "0">>
\* "H 1e-7 0 0"
LdB == <<"H", " ", "1", "e", "-", "7", " ", "0", " ", "0">>
\* "O 0.0 -0.3 0.0"
LdP == <<"O", " ", "0", ".", "0", " ", "-", "0", ".", "3", " ", "0", ".",
         "0">>
\* "O -2.8 -1.3 -0.4"
LdQ == <<"O", " ", "-", "2", ".", "8", " ", "-", "1", ".", "3", " ", "-",
         "0", ".", "4">>
\* "C 1.210 0.05 1.25"
LdFrac == <<"C", " ", "1", ".", "2", "1", "0", " ", "0", ".", "0", "5", " ",
            "1", ".", "2", "5">>
\* "Ne 1E1 2e-1 16777217"
LdExp == <<"N", "e", " ", "1", "E", "1", " ", "2", "e", "-", "1", " ", "1",
           "6", "7", "7", "7", "2", "1", "7">>
\* "N inf NaN -infinity"
LdInf == <<"N", " ", "i", "n", "f", " ", "N", "a", "N", " ", "-", "i", "n",
           "f", "i", "n", "i", "t", "y">>
\* "F 1e39 -0 +.5"
LdBig == <<"F", " ", "1", "e", "3", "9", " ", "-", "0", " ", "+", ".", "5">>
\* "O 1e 0 0"
LdBad == <<"O", " ", "1", "e", " ", "0", " ", "0">>

LoadLines == {LdCount, LdA, LdB, LdP, LdQ, LdFrac, LdExp, LdInf, LdBig, LdBad}

LoadFiles == {[readable |-> FALSE, lines |-> <<>>]}
             \cup {[readable |-> TRUE, lines |-> ls] :
                      ls \in SeqsUpTo(LoadLines, MaxLoadLines)}

InitLoad ==
    /\ file \in LoadFiles
    /\ pc = "load_xyz"
    /\ idx = 0
    /\ atoms = <<>>
    /\ mol = None
    /\ abort = None
    /\ camera = InitCamera
    /\ close = FALSE
    /\ calls = <<>>
    /\ k = 0
    /\ frameBegun = FALSE

\* load_xyz from its call to its return or to the abort.
NextLoad ==
    \/ ReadToString
    \/ SkipHeader
    \/ PushAtom
    \/ ParseFail
    \/ BuildMolecule

SpecLoad == InitLoad /\ [][NextLoad]_vars

\* ------------------------------------------- direct-translation camera mode
\* The camera controller's direct-translation mode of the design: four
\* directional signals, each moving the position along a fixed world axis at a
\* constant speed scaled by the frame time.  The program text under src/ only
\* has the third-person mode.
Signals == {"forward", "back", "left", "right"}

\* The startup pose in the decimal numbers of the design.
InitPoseDirect ==
    [position |-> <<0, 0, 0 - 5 * Scale>>, target |-> <<0, 0, 0>>,
     up |-> <<0, Scale, 0>>, fovy |-> 90 * Scale,
     projection |-> "CAMERA_PERSPECTIVE"]

Axis(sig) ==
    CASE sig = "forward" -> <<0, 0, 1>>
      [] sig = "back"    -> <<0, 0, -1>>
      [] sig = "left"    -> <<1, 0, 0>>
      [] sig = "right"   -> <<-1, 0, 0>>

\* 2.0 units per second.
Speed == 2 * Scale

\* Frame times of 0.1 s and 0.2 s.
FrameTimes == {Scale \div 10, (2 * Scale) \div 10}

\* The distance travelled in one frame, in fixed point.
Step(dt) == (Speed * dt) \div Scale

RECURSIVE Translate(_, _, _)
Translate(p, keys, dt) ==
    IF keys = {} THEN p
    ELSE LET sig == CHOOSE x \in keys : TRUE
             q   == [n \in 1..3 |-> p[n] + Axis(sig)[n] * Step(dt)]
         IN  Translate(q, keys \ {sig}, dt)

\* Mutant of DirectTranslation: the target moves with the position.
DirectTranslationTracking(pose, keys, dt) ==
    [pose EXCEPT !.position = Translate(pose.position, keys, dt),
                 !.target = Translate(pose.target, keys, dt)]

DirectTranslation(pose, keys, dt) ==
    [pose EXCEPT !.position = Translate(pose.position, keys, dt)]

InitDirect ==
    /\ file = [readable |-> FALSE, lines |-> <<>>]
    /\ pc = "direct"
    /\ idx = 0
    /\ atoms = <<>>
    /\ mol = None
    /\ abort = None
    /\ camera = InitPoseDirect
    /\ close = FALSE
    /\ calls = <<>>
    /\ k = 0
    /\ frameBegun = FALSE

\* One camera update in direct-translation mode; k counts the updates and
\* calls holds the inputs of the last one.
UpdateCameraDirect ==
    /\ pc = "direct"
    /\ k < MaxUpdates
    /\ \E keys \in SUBSET Signals, dt \in FrameTimes :
          /\ camera' = DirectTranslation(camera, keys, dt)
          /\ calls' = <<[op |-> "update_camera", mode |-> "Direct", keys |-> keys,
                         dt |-> dt, before |-> camera]>>
    /\ k' = k + 1
    /\ UNCHANGED <<file, pc, idx, atoms, mol, abort, close, frameBegun>>

NextDirect == UpdateCameraDirect

SpecDirect == InitDirect /\ [][NextDirect]_vars

\* ==================================================================== claims
\* The load has ended: load_xyz returned or the process aborted.
LoadDone == pc \notin {"load_xyz", "lines", "direct"}

\* The lines that hold atoms: all of them, or those after a two-line header.
DataLines(ls) ==
    IF ls # <<>> /\ Len(ls[1]) = 1 THEN SubSeq(ls, 3, Len(ls)) ELSE ls

HasBond(m, i, j) == \E n \in 1..Len(m.bonds) : m.bonds[n] = <<i, j>>

\* ---- exact arithmetic, to state distances without rounding
\* A natural number is the sequence of its digits in base 4096, lowest first.
BigAt(a, n) == IF n <= Len(a) THEN a[n] ELSE 0

BigMaxLen(a, b) == IF Len(a) > Len(b) THEN Len(a) ELSE Len(b)

\* a < b
BigLess(a, b) ==
    \E n \in 1..BigMaxLen(a, b) :
        /\ BigAt(a, n) < BigAt(b, n)
        /\ \A o \in (n + 1)..BigMaxLen(a, b) : BigAt(a, o) = BigAt(b, o)

\* a without the zeros above its highest non-zero digit.
BigTrim(a) ==
    SubSeq(a, 1, CHOOSE t \in 0..Len(a) :
                     (t = 0 \/ a[t] # 0) /\ \A o \in (t + 1)..Len(a) : a[o] = 0)

\* One more digit v % 4096 of a result, the rest of v carried on.
BigDigit(st, v) ==
    [n |-> st.n + 1, carry |-> v \div 4096, acc |-> Append(st.acc, v % 4096)]

RECURSIVE BigAddFrom(_, _, _)
BigAddFrom(a, b, st) ==
    IF st.n > BigMaxLen(a, b) THEN Append(st.acc, st.carry)
    ELSE BigAddFrom(a, b, BigDigit(st, BigAt(a, st.n) + BigAt(b, st.n) + st.carry))

\* a + b
BigAdd(a, b) == BigTrim(BigAddFrom(a, b, [n |-> 1, carry |-> 0, acc |-> <<>>]))

\* a - b for a >= b: the digits of a + (4096^n - 1 - b) + 1, without the
\* carry out of the highest one.
RECURSIVE BigSubFrom(_, _, _)
BigSubFrom(a, b, st) ==
    IF st.n > BigMaxLen(a, b) THEN st.acc
    ELSE BigSubFrom(a, b, BigDigit(st, BigAt(a, st.n) + (4095 - BigAt(b, st.n)) + st.carry))

BigSub(a, b) == BigSubFrom(a, b, [n |-> 1, carry |-> 1, acc |-> <<>>])

\* The sum of the products a[i] * b[j] with i + j = c + 1, from i on.
RECURSIVE BigColumn(_, _, _, _)
BigColumn(a, b, c, i) ==
    IF i > Len(a) \/ i > c THEN 0
    ELSE a[i] * BigAt(b, c + 1 - i) + BigColumn(a, b, c, i + 1)

RECURSIVE BigMulFrom(_, _, _)
BigMulFrom(a, b, st) ==
    IF st.n > Len(a) + Len(b) THEN st.acc
    ELSE BigMulFrom(a, b, BigDigit(st, BigColumn(a, b, st.n, 1) + st.carry))

\* a * b, for a and b of at most 100 digits
BigMul(a, b) == BigTrim(BigMulFrom(a, b, [n |-> 1, carry |-> 0, acc |-> <<>>]))

\* |v| * 2^149 for a finite f32 v, a natural number.
BigOfF32(v) ==
    Zeros((v.e + 149) \div 12)
        \o BigMul(<<v.m % 4096, v.m \div 4096>>, <<Pow2((v.e + 149) % 12)>>)

\* |A - B| or A + B
BigDistance(A, B, sameSign) ==
    IF ~sameSign THEN BigAdd(A, B)
    ELSE IF BigLess(A, B) THEN BigSub(B, A) ELSE BigSub(A, B)

\* |a - b| * 2^149 for finite f32 a and b, exactly.
AbsDiff(a, b) == BigDistance(BigOfF32(a), BigOfF32(b), a.neg = b.neg)

\* The lowest digits of d that can hold a number below t.
BigLow(d, t) == [n \in 1..Len(t) |-> BigAt(d, n)]

BigSquare(d) == BigMul(d, d)

\* dx^2 + dy^2 + dz^2 < t^2, for dx, dy, dz < t
SumOfSquaresBelow(dx, dy, dz, t) ==
    BigLess(BigAdd(BigAdd(BigSquare(dx), BigSquare(dy)), BigSquare(dz)), BigSquare(t))

\* sqrt(dx^2 + dy^2 + dz^2) < t
NormBelow(dx, dy, dz, t) ==
    /\ BigLess(dx, t)
    /\ BigLess(dy, t)
    /\ BigLess(dz, t)
    /\ SumOfSquaresBelow(BigLow(dx, t), BigLow(dy, t), BigLow(dz, t), t)

\* Every coordinate of the atom is a finite number.
FiniteAtom(a) == a.x.cls = "fin" /\ a.y.cls = "fin" /\ a.z.cls = "fin"

\* The Euclidean distance of two atoms is strictly below the f32 t, in exact
\* arithmetic on the coordinates the atoms hold; an atom with an infinite or
\* NaN coordinate is at no distance below t.
EuclideanBelow(a, b, t) ==
    /\ FiniteAtom(a)
    /\ FiniteAtom(b)
    /\ NormBelow(AbsDiff(a.x, b.x), AbsDiff(a.y, b.y), AbsDiff(a.z, b.z), BigOfF32(t))

\* C1 as stated: in the Molecule returned by the load, a pair i < j of atom
\* indices is in the bond list exactly when the Euclidean distance of the two
\* atoms is strictly below 3.0, whatever their elements.
C1_BondIffEuclideanBelowThreshold ==
    mol # None =>
        \A i, j \in 0..(Len(mol.atoms) - 1) :
            i < j =>
                (HasBond(mol, i, j)
                    <=> EuclideanBelow(mol.atoms[i + 1], mol.atoms[j + 1], F32OfInt(3)))

\* C1 amended: in the Molecule returned by the load, a pair i < j of atom
\* indices is in the bond list exactly when the distance of the two atoms as
\* computed in single precision (every difference, square, sum and the root
\* rounded to the nearest f32) is strictly below 3.0, whatever their elements;
\* a pair whose computed distance is exactly 3.0 is not bonded, and neither is
\* a pair with an infinite or NaN coordinate.
C1_BondIffComputedBelowThreshold ==
    mol # None =>
        \A i, j \in 0..(Len(mol.atoms) - 1) :
            i < j =>
                /\ HasBond(mol, i, j)
                      <=> F32Lt(Dist(mol.atoms[i + 1], mol.atoms[j + 1]), F32OfInt(3))
                /\ Dist(mol.atoms[i + 1], mol.atoms[j + 1]) = F32OfInt(3)
                      => ~HasBond(mol, i, j)
                /\ ~(FiniteAtom(mol.atoms[i + 1]) /\ FiniteAtom(mol.atoms[j + 1]))
                      => ~HasBond(mol, i, j)

\* A Molecule with a pair whose computed distance is exactly 3.0 (not bonded,
\* though the two atoms are closer than 3.0), a bonded pair of different
\* elements and a pair farther apart than 3.0.
C1_Witness ==
    /\ mol # None
    /\ \E i, j \in 0..(Len(mol.atoms) - 1) :
          /\ i < j
          /\ Dist(mol.atoms[i + 1], mol.atoms[j + 1]) = F32OfInt(3)
          /\ EuclideanBelow(mol.atoms[i + 1], mol.atoms[j + 1], F32OfInt(3))
          /\ ~HasBond(mol, i, j)
    /\ \E i, j \in 0..(Len(mol.atoms) - 1) :
          /\ i < j
          /\ mol.atoms[i + 1].w # mol.atoms[j + 1].w
          /\ HasBond(mol, i, j)
    /\ \E i, j \in 0..(Len(mol.atoms) - 1) :
          /\ i < j
          /\ F32Lt(F32OfInt(3), Dist(mol.atoms[i + 1], mol.atoms[j + 1]))
          /\ ~HasBond(mol, i, j)

LexLess(a, b) == a[1] < b[1] \/ (a[1] = b[1] /\ a[2] < b[2])

\* C2: the bond list is strictly increasing in the lexicographic order of
\* (i, j), and every entry has 0 <= i < j < atom_count; hence it holds no
\* self-pair and no pair twice.
C2_BondsStrictlyOrdered ==
    mol # None =>
        /\ \A n \in 1..Len(mol.bonds) :
              /\ 0 <= mol.bonds[n][1]
              /\ mol.bonds[n][1] < mol.bonds[n][2]
              /\ mol.bonds[n][2] < Len(mol.atoms)
        /\ \A n \in 1..(Len(mol.bonds) - 1) : LexLess(mol.bonds[n], mol.bonds[n + 1])

\* A Molecule of three atoms, each pair bonded: the list is (0,1), (0,2), (1,2).
C2_Witness ==
    /\ mol # None
    /\ Len(mol.atoms) = 3
    /\ mol.bonds = << <<0, 1>>, <<0, 2>>, <<1, 2>> >>

\* A data line of the format: four tokens, a symbol of the table, three numbers.
WellFormedLine(l) ==
    LET sp == SplitAsciiWhitespace(l)
    IN  /\ Len(sp) = 4
        /\ \E e \in 1..NATOMS : SYMS[e] = sp[1]
        /\ \A c \in 2..4 : ParseF32(sp[c]).ok

\* ---- the number a token denotes, to state its distance to an f32 without
\* rounding
\* a <= b
BigLeq(a, b) == ~BigLess(b, a)

\* 2^n
BigPow2(n) == Zeros(n \div 12) \o <<Pow2(n % 12)>>

\* st.v * 10^st.n, three powers at a time
RECURSIVE BigTimesPow10(_)
BigTimesPow10(st) ==
    IF st.n = 0 THEN st.v
    ELSE IF st.n >= 3 THEN BigTimesPow10([n |-> st.n - 3, v |-> BigMul(<<1000>>, st.v)])
    ELSE BigTimesPow10([n |-> st.n - 1, v |-> BigMul(<<10>>, st.v)])

\* 10^n
BigPow10(n) == BigTimesPow10([n |-> n, v |-> <<1>>])

\* The natural number with decimal digits ds, from the left: st.v is the
\* number with the first st.n of them.
RECURSIVE BigOfDigitsFrom(_, _)
BigOfDigitsFrom(ds, st) ==
    IF st.n = Len(ds) THEN st.v
    ELSE BigOfDigitsFrom(ds, [n |-> st.n + 1,
                              v |-> BigAdd(BigMul(<<10>>, st.v), <<ds[st.n + 1]>>)])

BigOfDigits(ds) == BigOfDigitsFrom(ds, [n |-> 0, v |-> <<>>])

\* n or 0
AtLeastZero(n) == IF n > 0 THEN n ELSE 0

\* |m * 2^e - N * 10^p| <= 2^(e - 1): the number m * 2^e is no farther than
\* half a unit of its last place from N * 10^p.  Both sides are multiplied
\* by 2 and by the powers of 2 and 10 that make them natural numbers.
WithinHalfUnit(m, e, N, p) ==
    BigLeq(BigMul(<<2>>,
                  BigDistance(BigMul(BigMul(<<m % 4096, m \div 4096>>,
                                            BigPow2(AtLeastZero(e))),
                                     BigPow10(AtLeastZero(0 - p))),
                              BigMul(BigMul(N, BigPow10(AtLeastZero(p))),
                                     BigPow2(AtLeastZero(0 - e))),
                              TRUE)),
           BigMul(BigPow2(AtLeastZero(e)), BigPow10(AtLeastZero(0 - p))))

\* N * 10^p >= 2^128 - 2^103, the middle of the largest finite f32 and 2^128:
\* from there on the nearest f32 is infinity.
BeyondFinite(N, p) ==
    BigLeq(BigMul(BigMul(<<4095, 4095, 1>>, BigPow2(103)), BigPow10(AtLeastZero(0 - p))),
           BigMul(N, BigPow10(AtLeastZero(p))))

\* The f32 v is a nearest one to N * 10^p.
NearestTo(v, N, p) ==
    CASE v.cls = "fin" -> WithinHalfUnit(v.m, v.e, N, p)
      [] v.cls = "inf" -> BeyondFinite(N, p)
      [] OTHER -> FALSE

TokenNeg(tok) == tok # <<>> /\ tok[1] = "-"

TokenBody(tok) == IF tok # <<>> /\ tok[1] \in {"-", "+"} THEN Tail(tok) ELSE tok

\* The f32 v is the value of the decimal number num (digits before and after
\* the point, exponent) with the sign neg.
IsValueOfNumber(v, neg, num) ==
    /\ v.cls # "nan"
    /\ v.neg = neg
    /\ NearestTo(v, BigOfDigits(num.ip \o num.fp), num.ex - Len(num.fp))

\* The f32 v is the value of the word low with the sign neg: NaN for "nan",
\* the infinity of that sign for "inf" and "infinity".
IsValueOfWord(v, neg, low) ==
    IF low = <<"n", "a", "n">> THEN v.cls = "nan"
    ELSE /\ low \in {<<"i", "n", "f">>, <<"i", "n", "f", "i", "n", "i", "t", "y">>}
         /\ v.cls = "inf"
         /\ v.neg = neg

\* The f32 v is the value of the token tok: of a decimal number, with the
\* digits and the exponent the library reads from it, an f32 of the sign of
\* the token and no farther than half a unit of its last place from that
\* number (zero keeps the sign; infinity from the middle of the largest
\* finite f32 and 2^128 on); of "nan", "inf" and "infinity", NaN and the
\* infinity of the sign of the token.
IsValueOfToken(v, tok) ==
    IF ParseNumber(TokenBody(tok)).ok
    THEN IsValueOfNumber(v, TokenNeg(tok), ParseNumber(TokenBody(tok)))
    ELSE IsValueOfWord(v, TokenNeg(tok), Lower(TokenBody(tok)))

\* C3: for a readable file whose N data lines are all well-formed, the load
\* yields N atoms in file order; atom n has as element id the position of its
\* line's symbol in the table (a valid index of the tables) and as x, y, z the
\* values of tokens 1, 2, 3 of the line: what str::parse::<f32> gives for the
\* token, which is within half a unit of the last place of the number the
\* token denotes.
C3_ParseCorrect ==
    LET dl == DataLines(file.lines)
    IN  (LoadDone /\ file.readable /\ \A n \in 1..Len(dl) : WellFormedLine(dl[n])) =>
            /\ mol # None
            /\ Len(mol.atoms) = Len(dl)
            /\ \A n \in 1..Len(dl) :
                  LET sp == SplitAsciiWhitespace(dl[n])
                      a  == mol.atoms[n]
                  IN  /\ a.w \in 0..(NATOMS - 1)
                      /\ SYMS[a.w + 1] = sp[1]
                      /\ a.x = ParseF32(sp[2]).v
                      /\ a.y = ParseF32(sp[3]).v
                      /\ a.z = ParseF32(sp[4]).v
                      /\ IsValueOfToken(a.x, sp[2])
                      /\ IsValueOfToken(a.y, sp[3])
                      /\ IsValueOfToken(a.z, sp[4])

\* A well-formed file with a header was loaded: its one data line gives the
\* Ne atom at (10, 0.2, 16777216), which are the f32 nearest to the tokens
\* "1E1", "2e-1" and "16777217".
C3_Witness ==
    /\ LoadDone
    /\ mol # None
    /\ Len(file.lines) = 3
    /\ Len(mol.atoms) = 1
    /\ mol.atoms[1] = [w |-> 10, x |-> F32OfInt(10),
                       y |-> [cls |-> "fin", neg |-> FALSE, m |-> 13421773, e |-> -26],
                       z |-> [cls |-> "fin", neg |-> FALSE, m |-> 8388608, e |-> 1]]

\* The bytes that go on a character in UTF-8 (0x80 to 0xBF); the lines of the
\* model hold one of them.
ContinuationBytes == {"A9"}

\* The number of characters of a line.
CharCount(l) == Cardinality({n \in 1..Len(l) : l[n] \notin ContinuationBytes})

\* The file begins with a one-character line followed by a comment line.
HeaderAndComment(ls) == Len(ls) >= 2 /\ CharCount(ls[1]) = 1

\* The file begins with a one-byte line followed by a comment line.
ByteHeaderAndComment(ls) == Len(ls) >= 2 /\ Len(ls[1]) = 1

\* The same file with those two lines removed.
Stripped(ls) == SubSeq(ls, 3, Len(ls))

\* What the load of this run yielded: the atoms and bonds of the Molecule, or
\* nothing when the process aborted.
Yielded ==
    IF mol # None
    THEN [ok |-> TRUE, atoms |-> mol.atoms, bonds |-> mol.bonds]
    ELSE [ok |-> FALSE, atoms |-> <<>>, bonds |-> <<>>]

\* What the load yields on a text.
YieldOf(ls) ==
    [ok |-> LoadAtoms(ls).ok, atoms |-> LoadAtoms(ls).atoms,
     bonds |-> InferBonds(LoadAtoms(ls).atoms)]

\* A one-byte line other than the first line and the comment of a header.
OneByteDataLine(ls) ==
    \E n \in 2..Len(ls) : Len(ls[n]) = 1 /\ ~(n = 2 /\ Len(ls[1]) = 1)

\* The first line is one character of more than one byte.
WideFirstLine(ls) == ls # <<>> /\ CharCount(ls[1]) = 1 /\ Len(ls[1]) > 1

\* C4 as stated: a file that begins with a one-character line followed by a
\* comment line yields the same atoms and bonds as the file with those two
\* lines removed.
C4_HeaderSkipAnyFile ==
    (LoadDone /\ file.readable /\ HeaderAndComment(file.lines)) =>
        Yielded = YieldOf(Stripped(file.lines))

\* C4 amended: a file that begins with a line of exactly one byte followed by
\* a comment line, and whose third line (if any) is not itself a one-byte
\* line, yields the same atoms and bonds as the file with those two lines
\* removed; the skip applies only to the first line: a one-byte line anywhere
\* else is parsed as a data line, so no Molecule is built; and a first line of
\* one character of more than one byte is no header: it is parsed as a data
\* line, so no Molecule is built.
C4_HeaderSkip ==
    /\ (/\ LoadDone
        /\ file.readable
        /\ ByteHeaderAndComment(file.lines)
        /\ (Len(file.lines) >= 3 => Len(file.lines[3]) # 1)) =>
            Yielded = YieldOf(Stripped(file.lines))
    /\ (LoadDone /\ file.readable /\ OneByteDataLine(file.lines)) => mol = None
    /\ (LoadDone /\ file.readable /\ WideFirstLine(file.lines)) => mol = None

\* A file with a header whose comment looks like an atom line, followed by one
\* atom line, was loaded: the Molecule holds that one atom.
C4_Witness ==
    /\ LoadDone
    /\ Len(file.lines) = 3
    /\ ByteHeaderAndComment(file.lines)
    /\ WellFormedLine(file.lines[2])
    /\ mol # None
    /\ Len(mol.atoms) = 1
    /\ mol.atoms[1] = AtomFromStr(file.lines[3]).atom

\* The error kinds of the design, by the diagnostic of the program.
ErrorKind(err) ==
    CASE err = "invalid line length for Atom" -> "FormatError"
      [] err = "unknown atom" -> "UnknownElementError"
      [] err = "ParseFloatError" -> "NumberFormatError"
      [] OTHER -> "IOError"

\* C5: parsing a data line reports the precise error kind, each returned as an
\* error outcome of the parser: FormatError when the token count is not 4,
\* whatever the tokens; UnknownElementError for a 4-token line whose symbol is
\* not in the table; NumberFormatError for a 4-token line with a known symbol
\* and a non-numeric coordinate.
C5_PreciseReturnedErrors ==
    (pc = "aborted" /\ file.readable) =>
        LET sp == SplitAsciiWhitespace(file.lines[idx + 1])
            known == \E e \in 1..NATOMS : SYMS[e] = sp[1]
        IN  /\ abort.kind = "Err"
            /\ Len(sp) # 4 => ErrorKind(abort.err) = "FormatError"
            /\ (Len(sp) = 4 /\ ~known) => ErrorKind(abort.err) = "UnknownElementError"
            /\ (Len(sp) = 4 /\ known) => ErrorKind(abort.err) = "NumberFormatError"

\* C6: loading is all-or-nothing and fatal on error.  Until load_xyz returns,
\* and after an abort, there is no Molecule and no frame has begun; an
\* unreadable file or a data line that does not parse ends in the abort; the
\* render loop runs only with a Molecule holding the atom of every data line.
C6_AllOrNothing ==
    LET dl == DataLines(file.lines)
    IN  /\ pc \in {"load_xyz", "lines", "aborted"} =>
              (mol = None /\ ~frameBegun /\ calls = <<>>)
        /\ (LoadDone /\ (~file.readable
                         \/ \E n \in 1..Len(dl) : AtomFromStr(dl[n]).kind # "Ok")) =>
              pc = "aborted"
        /\ (frameBegun \/ calls # <<>>) => mol # None
        /\ mol # None =>
              /\ file.readable
              /\ Len(mol.atoms) = Len(dl)
              /\ \A n \in 1..Len(dl) :
                    /\ AtomFromStr(dl[n]).kind = "Ok"
                    /\ mol.atoms[n] = AtomFromStr(dl[n]).atom
              /\ mol.atoms = LoadAtoms(file.lines).atoms

\* The process aborted on a bad line after two good ones: the atoms parsed so
\* far were dropped, no Molecule exists and no frame was begun.
C6_Witness ==
    /\ pc = "aborted"
    /\ file.readable
    /\ Len(atoms) = 2
    /\ mol = None
    /\ ~frameBegun

\* The positions of the calls of one operation in the current iteration.
At(op) == {n \in 1..Len(calls) : calls[n].op = op}

IsDrawCall(c) == c.op \in {"draw_sphere", "draw_cylinder"}

IsStepCall(c) == ~IsDrawCall(c)

\* The operations of a sequence of calls.
Ops(cs) == [n \in 1..Len(cs) |-> cs[n].op]

\* An iteration of the frame loop has run to its end.
IterationDone == pc = "should_close" /\ calls # <<>>

\* C7: in every iteration the steps occur in this order: the camera pose is
\* updated (once), the frame is begun, the background is cleared, 3D mode is
\* entered, atoms and bonds are drawn, 3D mode is exited, the frame is ended;
\* and the pose 3D mode is entered with is the pose that iteration's camera
\* update produced.
C7_UpdateThenFrame ==
    IterationDone =>
        /\ Ops(SelectSeq(calls, IsStepCall))
              = <<"should_close", "update_camera", "begin_drawing",
                  "clear_background", "begin_mode3d", "end_mode3d", "end_drawing">>
        /\ \A d \in At("draw_sphere") \cup At("draw_cylinder") :
              \A b \in At("begin_mode3d"), e \in At("end_mode3d") : b < d /\ d < e
        /\ \A u \in At("update_camera"), b \in At("begin_mode3d") :
              calls[b].camera = calls[u].camera

BodyPcs ==
    {"begin_drawing", "clear_background", "begin_mode3d", "update_camera",
     "draw_spheres", "draw_cylinders", "end_mode3d", "end_drawing"}

\* C8: the close query is made once per iteration, before any other step; the
\* body runs only after a query that saw no close signal; the loop is left only
\* at a query that saw the signal, with no further frame begun; begin-frame,
\* begin-3D, end-3D and end-frame occur at most once per iteration, in this
\* nesting, and all four have occurred when the next query is due.
C8_CloseOnlyAtFrameBoundary ==
    /\ calls # <<>> => At("should_close") = {1}
    /\ pc \in BodyPcs => (calls # <<>> /\ calls[1].result = FALSE)
    /\ pc = "exited" =>
          (close /\ calls = <<[op |-> "should_close", result |-> TRUE]>>)
    /\ (pc = "should_close" /\ calls = <<>>) => ~frameBegun
    /\ \A op \in {"begin_drawing", "begin_mode3d", "end_mode3d", "end_drawing"} :
          Cardinality(At(op)) <= 1
    /\ \A n \in At("begin_mode3d") : \E m \in At("begin_drawing") : m < n
    /\ \A n \in At("end_mode3d") : \E m \in At("begin_mode3d") : m < n
    /\ \A n \in At("end_drawing") : \E m \in At("end_mode3d") : m < n
    /\ IterationDone =>
          \A op \in {"begin_drawing", "begin_mode3d", "end_mode3d", "end_drawing"} :
              Cardinality(At(op)) = 1
    /\ (pc = "should_close" /\ calls # <<>>) => calls[Len(calls)].op = "end_drawing"

\* The close signal was raised in the middle of a frame that draws a bond: the
\* frame goes on to its end.
C8_Witness ==
    /\ pc = "end_mode3d"
    /\ close
    /\ calls[1].result = FALSE
    /\ At("draw_cylinder") # {}

\* The draw calls of the current iteration, in order.
Draws == SelectSeq(calls, IsDrawCall)

\* The draw calls of a whole frame for a Molecule: a sphere per atom in atom
\* order, then a cylinder per bond in bond order, of radius 0.1 (the nearest
\* f32); div is the divisor applied to the radius of the table.
ExpectedDraws(m, div) ==
    [n \in 1..Len(m.atoms) |->
        [op |-> "draw_sphere",
         center |-> <<m.atoms[n].x, m.atoms[n].y, m.atoms[n].z>>,
         radius |-> F32Div(RADII[m.atoms[n].w + 1], F32OfInt(div)),
         color |-> COLORS[m.atoms[n].w + 1]]]
    \o [n \in 1..Len(m.bonds) |->
        LET a == m.atoms[m.bonds[n][1] + 1]
            b == m.atoms[m.bonds[n][2] + 1]
        IN  [op |-> "draw_cylinder", start |-> <<a.x, a.y, a.z>>,
             end |-> <<b.x, b.y, b.z>>,
             radius |-> [cls |-> "fin", neg |-> FALSE, m |-> 13421773, e |-> -27],
             color |-> "LIGHTGRAY"]]

\* The draw calls made so far in the iteration are the first ones of the
\* expected frame, all of them once 3D mode is exited, and all lie between the
\* entry to and the exit from 3D mode; the Molecule is the one the load built.
FrameDraws(div) ==
    /\ mol # None =>
          /\ mol.atoms = atoms
          /\ mol.bonds = InferBonds(atoms)
    /\ calls # <<>> =>
          /\ Len(Draws) <= Len(ExpectedDraws(mol, div))
          /\ Draws = SubSeq(ExpectedDraws(mol, div), 1, Len(Draws))
          /\ (At("end_mode3d") # {}) => Draws = ExpectedDraws(mol, div)
          /\ \A d \in At("draw_sphere") \cup At("draw_cylinder") :
                /\ \E b \in At("begin_mode3d") : b < d
                /\ \A e \in At("end_mode3d") : d < e

\* C10 as stated: in every iteration, between entering and exiting 3D mode,
\* one sphere is drawn per atom of the Molecule built at load (atom order, the
\* atom's position, radius and color of the element table), then one cylinder
\* per bond (bond order, between its atoms, radius 0.1, one color); the
\* Molecule stays as loaded.
C10_DrawsWithTableRadius == FrameDraws(1)

\* C10 amended: the same, the radius of a sphere being half the value the
\* element table holds for the element.
C10_DrawsWithHalfTableRadius == FrameDraws(2)

\* A frame of a Molecule with two atoms of different colors and a bond between
\* them has been drawn in full.
C10_Witness ==
    /\ pc = "end_drawing"
    /\ Len(mol.atoms) = 2
    /\ Len(mol.bonds) = 1
    /\ Len(Draws) = 3
    /\ Draws[1].color # Draws[2].color
    /\ Draws[3].start # Draws[3].end

\* C9: in direct-translation mode an update changes only the position: target
\* and up stay as they were, so the target is the world origin after any
\* number of updates; with one signal active the position moves along that
\* signal's axis by speed times frame time; and from the startup pose
\* (0,0,-5), one update with forward active and dt = 0.1 gives (0,0,-4.8).
C9_DirectTranslation ==
    /\ camera.target = <<0, 0, 0>>
    /\ camera.up = <<0, Scale, 0>>
    /\ k = 0 => camera.position = <<0, 0, 0 - 5 * Scale>>
    /\ calls # <<>> =>
          LET c == calls[1]
          IN  /\ camera.target = c.before.target
              /\ camera.up = c.before.up
              /\ camera.fovy = c.before.fovy
              /\ \A sig \in Signals :
                    c.keys = {sig} =>
                        \A n \in 1..3 :
                            camera.position[n] =
                                c.before.position[n]
                                    + Axis(sig)[n] * ((2 * Scale * c.dt) \div Scale)
              /\ (k = 1 /\ c.keys = {"forward"} /\ c.dt * 10 = Scale) =>
                    camera.position = <<0, 0, (0 - 48 * Scale) \div 10>>

\* The first update, from the startup pose, with forward active and dt = 0.1.
C9_Witness ==
    /\ k = 1
    /\ calls # <<>>
    /\ calls[1].keys = {"forward"}
    /\ calls[1].dt * 10 = Scale
    /\ calls[1].before.position = <<0, 0, 0 - 5 * Scale>>
    /\ camera.position = <<0, 0, (0 - 48 * Scale) \div 10>>

====
